---- MODULE Spec2Model ----
(***************************************************************************)
(* GearGuard maintenance backend (backend/main.py, backend/models.py).     *)
(*                                                                         *)
(* The state is the content of the tables users, teams, equipment and      *)
(* requests, plus the HTTP response of the last handler.  Every endpoint   *)
(* of main.py that writes one of these tables is one action: the handler   *)
(* builds the rows it wants to write (the *_tx operators), and db.commit() *)
(* either installs them or raises and leaves the tables as they were.      *)
(*                                                                         *)
(* Encoding.  Python None / SQL NULL of an integer column is NULL, of a    *)
(* text column NONE.  Ids are positive integers handed out by the store in *)
(* increasing order.  Columns that no handler reads back (subject,         *)
(* scheduled_date, work_center_id, created_by_id, the descriptive columns  *)
(* of equipment, the credentials of users) are not represented, nor are    *)
(* the work centers and the list endpoints, which touch no other table.    *)
(*                                                                         *)
(* Store.  models.py declares the foreign keys; whether the engine behind  *)
(* database.engine enforces them is a property of the deployment           *)
(* (PostgreSQL does, SQLite without the foreign_keys pragma does not).     *)
(* fkEnforced is chosen once, in Init, and both stores are explored.       *)
(*                                                                         *)
(* Size.  capacity, fixed in Init, caps the rows of each table; it is the  *)
(* only thing that differs between the specifications below, apart from    *)
(* the handlers they run and the inputs they try.                          *)
(*                                                                         *)
(* Transactions.  A handler is one transaction of its own Session.  Where  *)
(* only the committed states matter it is one action.  SpecTx runs the     *)
(* handlers that write team references as transactions in flight at the    *)
(* same time as a delete_team: txs holds, per handler, how far its         *)
(* transaction has got and the writes it has issued and not yet committed. *)
(***************************************************************************)
EXTENDS Integers, Sequences, FiniteSets, TLC

\* ---------------------------------------------------------------- bounds
\* Rows each table may come to hold (ids handed out, for teams and equipment) in the
\* runs of Spec, of SpecTeams, of SpecFields, of SpecStats and of SpecTx.
MaxUsers == 1
MaxTeams == 1
MaxEquipment == 1
MaxRequests == 1
TeamsMaxUsers == 3
TeamsMaxTeams == 2
FieldsMaxRequests == 1
StatsMaxEquipment == 1
StatsMaxRequests == 2
TxMaxUsers == 1
TxMaxTeams == 1
TxMaxEquipment == 1
TxMaxRequests == 1

\* ---------------------------------------------------------------- values
NULL == 0 - 1
NONE == "<None>"

HTTP_OK == 200
HTTP_CREATED == 201
HTTP_BAD_REQUEST == 400
HTTP_NOT_FOUND == 404
HTTP_SERVER_ERROR == 500

STAGE_NEW == "New"
STAGE_IN_PROGRESS == "In Progress"
STAGE_REPAIRED == "Repaired"
STAGE_SCRAP == "Scrap"
RequestStage == {STAGE_NEW, STAGE_IN_PROGRESS, STAGE_REPAIRED, STAGE_SCRAP}

KANBAN_NORMAL == "normal"
KANBAN_BLOCKED == "blocked"
KANBAN_DONE == "done"
KanbanState == {KANBAN_NORMAL, KANBAN_BLOCKED, KANBAN_DONE}

RequestType == {"Corrective", "Preventive"}

\* Python truthiness of an Optional[int] / Optional[float] and of an Optional[str].
Truthy(v) == v # NULL /\ v # 0
TruthyStr(s) == s # NONE /\ s # ""

VARIABLES fkEnforced, capacity, users, teams, equipment, requests,
          nextTeamId, nextEquipmentId, response, txs

tables == <<users, teams, equipment, requests>>
config == <<fkEnforced, capacity>>
vars == <<fkEnforced, capacity, users, teams, equipment, requests,
          nextTeamId, nextEquipmentId, response, txs>>

\* The tables as one value: what a Session reads and what a commit installs.
Store == [users |-> users, teams |-> teams, equipment |-> equipment, requests |-> requests]

\* ---------------------------------------------------------------- rows
UserRow(team_id) == [team_id |-> team_id]

TeamRow(name) == [name |-> name]

EquipmentRow(maintenance_team_id, technician_id, is_active) ==
    [maintenance_team_id |-> maintenance_team_id,
     technician_id |-> technician_id,
     is_active |-> is_active]

\* The columns a new MaintenanceRequest gets that create_request does not pass.
RequestDefaults ==
    [notes |-> NONE, instructions |-> NONE, worksheet_log |-> NONE,
     kanban_state |-> KANBAN_NORMAL]

\* A function with one more, or one changed, row / with one row removed.
Put(f, k, row) == [i \in DOMAIN f \cup {k} |-> IF i = k THEN row ELSE f[i]]
Drop(f, k) == [i \in DOMAIN f \ {k} |-> f[i]]

\* ---------------------------------------------------------------- store constraints
\* A nullable foreign key column holds NULL or the id of a row of the parent table.
RefOk(v, parent) == v = NULL \/ v \in DOMAIN parent

ForeignKeysOk(db) ==
    /\ \A u \in DOMAIN db.users : RefOk(db.users[u].team_id, db.teams)
    /\ \A e \in DOMAIN db.equipment :
          /\ RefOk(db.equipment[e].maintenance_team_id, db.teams)
          /\ RefOk(db.equipment[e].technician_id, db.users)
    /\ \A r \in DOMAIN db.requests :
          /\ RefOk(db.requests[r].equipment_id, db.equipment)
          /\ RefOk(db.requests[r].assigned_team_id, db.teams)
          /\ RefOk(db.requests[r].technician_id, db.users)

\* teams.name is unique (every engine enforces a unique index).
UniqueOk(db) ==
    \A s, t \in DOMAIN db.teams : db.teams[s].name = db.teams[t].name => s = t

ConstraintsOk(enforced, db) == UniqueOk(db) /\ (enforced => ForeignKeysOk(db))

\* ---------------------------------------------------------------- responses
Response(op, status, body) == [op |-> op, status |-> status, body |-> body]

\* db.commit(): the rows are installed, or the engine raises (IntegrityError, which
\* FastAPI turns into a 500) and the tables keep their committed content.
Commit(db, op, status, body) ==
    IF ConstraintsOk(fkEnforced, db)
    THEN /\ users' = db.users
         /\ teams' = db.teams
         /\ equipment' = db.equipment
         /\ requests' = db.requests
         /\ response' = Response(op, status, body)
    ELSE /\ UNCHANGED tables
         /\ response' = Response(op, HTTP_SERVER_ERROR, NULL)

\* raise HTTPException(...) before any write.
Raise(op, status) ==
    /\ UNCHANGED tables
    /\ response' = Response(op, status, NULL)

\* ---------------------------------------------------------------- requests
\* create_request, step 1: the user's selection, else the equipment's team, else
\* whatever the selection was.
final_team_id(db, team_id, equipment_id) ==
    IF ~Truthy(team_id) /\ Truthy(equipment_id)
    THEN IF equipment_id \in DOMAIN db.equipment
         THEN db.equipment[equipment_id].maintenance_team_id
         ELSE team_id
    ELSE team_id

new_req(db, request) ==
    [request_type |-> request.request_type,
     equipment_id |-> request.equipment_id,
     assigned_team_id |-> final_team_id(db, request.team_id, request.equipment_id),
     technician_id |-> request.technician_id,
     duration_hours |-> request.duration,
     stage |-> STAGE_NEW,
     priority |-> request.priority,
     notes |-> RequestDefaults.notes,
     instructions |-> RequestDefaults.instructions,
     worksheet_log |-> RequestDefaults.worksheet_log,
     kanban_state |-> RequestDefaults.kanban_state]

create_request_tx(db, request) ==
    [db EXCEPT !.requests = Append(@, new_req(db, request))]

create_request(request) ==
    /\ Len(requests) < capacity.requests
    /\ IF request.request_type \notin RequestType
       THEN Raise("create_request", HTTP_BAD_REQUEST)
       ELSE Commit(create_request_tx(Store, request), "create_request", HTTP_OK, NULL)
    /\ UNCHANGED <<config, txs, nextTeamId, nextEquipmentId>>

\* Mutant of patched: one presence test, "is not None", for every field.
patched_uniformly(req, update_data) ==
    [req EXCEPT
       !.stage = IF update_data.stage # NONE THEN update_data.stage ELSE @,
       !.duration_hours =
           IF update_data.duration_hours # NULL THEN update_data.duration_hours ELSE @,
       !.technician_id =
           IF update_data.technician_id # NULL THEN update_data.technician_id ELSE @,
       !.priority = IF update_data.priority # NULL THEN update_data.priority ELSE @,
       !.kanban_state =
           IF update_data.kanban_state # NONE THEN update_data.kanban_state ELSE @,
       !.notes = IF update_data.notes # NONE THEN update_data.notes ELSE @,
       !.instructions =
           IF update_data.instructions # NONE THEN update_data.instructions ELSE @,
       !.worksheet_log =
           IF update_data.worksheet_log # NONE THEN update_data.worksheet_log ELSE @]

\* update_stage, the field updates: truthiness guards stage, technician_id, priority
\* and kanban_state; "is not None" guards the other four.
patched(req, update_data) ==
    [req EXCEPT
       !.stage = IF TruthyStr(update_data.stage) THEN update_data.stage ELSE @,
       !.duration_hours =
           IF update_data.duration_hours # NULL THEN update_data.duration_hours ELSE @,
       !.technician_id =
           IF Truthy(update_data.technician_id) THEN update_data.technician_id ELSE @,
       !.priority = IF Truthy(update_data.priority) THEN update_data.priority ELSE @,
       !.kanban_state =
           IF TruthyStr(update_data.kanban_state) THEN update_data.kanban_state ELSE @,
       !.notes = IF update_data.notes # NONE THEN update_data.notes ELSE @,
       !.instructions =
           IF update_data.instructions # NONE THEN update_data.instructions ELSE @,
       !.worksheet_log =
           IF update_data.worksheet_log # NONE THEN update_data.worksheet_log ELSE @]

\* Mutant of scrap_logic: the equipment is never deactivated.
scrap_logic_left_out(db, req) == db

\* update_stage, the scrap logic on the patched row.
scrap_logic(db, req) ==
    IF /\ req.stage = STAGE_SCRAP
       /\ Truthy(req.equipment_id)
       /\ req.equipment_id \in DOMAIN db.equipment
    THEN [db EXCEPT !.equipment[req.equipment_id].is_active = FALSE]
    ELSE db

update_stage_tx(db, request_id, update_data) ==
    LET req == patched(db.requests[request_id], update_data)
    IN  scrap_logic([db EXCEPT !.requests[request_id] = req], req)

update_stage(request_id, update_data) ==
    /\ IF request_id \notin DOMAIN requests
       THEN Raise("update_stage", HTTP_NOT_FOUND)
       ELSE Commit(update_stage_tx(Store, request_id, update_data),
                   "update_stage", HTTP_OK, NULL)
    /\ UNCHANGED <<config, txs, nextTeamId, nextEquipmentId>>

\* ---------------------------------------------------------------- equipment
create_equipment_tx(db, id, equip) ==
    [db EXCEPT !.equipment =
        Put(@, id, EquipmentRow(equip.maintenance_team_id, equip.technician_id, TRUE))]

create_equipment(equip) ==
    /\ nextEquipmentId <= capacity.equipment
    /\ Commit(create_equipment_tx(Store, nextEquipmentId, equip),
              "create_equipment", HTTP_OK, NULL)
    /\ nextEquipmentId' =
          IF equipment' # equipment THEN nextEquipmentId + 1 ELSE nextEquipmentId
    /\ UNCHANGED <<config, txs, nextTeamId>>

delete_equipment_tx(db, equipment_id) ==
    [db EXCEPT !.equipment = Drop(@, equipment_id)]

delete_equipment(equipment_id) ==
    /\ Commit(delete_equipment_tx(Store, equipment_id), "delete_equipment", HTTP_OK, NULL)
    /\ UNCHANGED <<config, txs, nextTeamId, nextEquipmentId>>

\* Mutant of update_equipment_tx: the row is rebuilt the way create_equipment builds it.
update_equipment_tx_rebuilding(db, equipment_id, equip) ==
    [db EXCEPT !.equipment[equipment_id] =
        EquipmentRow(equip.maintenance_team_id, equip.technician_id, TRUE)]

update_equipment_tx(db, equipment_id, equip) ==
    [db EXCEPT !.equipment[equipment_id] =
        [@ EXCEPT !.maintenance_team_id = equip.maintenance_team_id,
                  !.technician_id = equip.technician_id]]

update_equipment(equipment_id, equip) ==
    /\ IF equipment_id \notin DOMAIN equipment
       THEN Raise("update_equipment", HTTP_NOT_FOUND)
       ELSE Commit(update_equipment_tx(Store, equipment_id, equip),
                   "update_equipment", HTTP_OK, NULL)
    /\ UNCHANGED <<config, txs, nextTeamId, nextEquipmentId>>

\* Mutant of open_requests: the Scrap filter left out.
open_requests_counting_scrap(db, equipment_id) ==
    {r \in DOMAIN db.requests :
        /\ db.requests[r].equipment_id = equipment_id
        /\ db.requests[r].stage # STAGE_REPAIRED}

\* get_equipment_stats: the rows counted, and their number.
open_requests(db, equipment_id) ==
    {r \in DOMAIN db.requests :
        /\ db.requests[r].equipment_id = equipment_id
        /\ db.requests[r].stage # STAGE_REPAIRED
        /\ db.requests[r].stage # STAGE_SCRAP}

get_equipment_stats(equipment_id) ==
    /\ response' = Response("get_equipment_stats", HTTP_OK,
                            Cardinality(open_requests(Store, equipment_id)))
    /\ UNCHANGED <<tables, config, txs, nextTeamId, nextEquipmentId>>

\* ---------------------------------------------------------------- users
\* signup: a new portal user, member of no team (the 409 and 400 answers, which write
\* nothing, are left out).
signup_tx(db) == [db EXCEPT !.users = Append(@, UserRow(NULL))]

signup ==
    /\ Len(users) < capacity.users
    /\ Commit(signup_tx(Store), "signup", HTTP_CREATED, NULL)
    /\ UNCHANGED <<config, txs, nextTeamId, nextEquipmentId>>

\* ---------------------------------------------------------------- teams
create_team_tx(db, id, team) == [db EXCEPT !.teams = Put(@, id, TeamRow(team.name))]

create_team(team) ==
    /\ nextTeamId <= capacity.teams
    /\ Commit(create_team_tx(Store, nextTeamId, team), "create_team", HTTP_OK, NULL)
    /\ nextTeamId' = IF teams' # teams THEN nextTeamId + 1 ELSE nextTeamId
    /\ UNCHANGED <<config, txs, nextEquipmentId>>

\* update_team, "if team_data.name".
renamed(db, team_id, name) ==
    IF TruthyStr(name) THEN [db EXCEPT !.teams[team_id].name = name] ELSE db

\* Mutant of unassign_members: the new list is merged into the old one.
unassign_members_left_out(db, team_id) == db

\* update_team, "1. Clear existing members".
unassign_members(db, team_id) ==
    [db EXCEPT !.users =
        [u \in DOMAIN @ |-> IF @[u].team_id = team_id THEN UserRow(NULL) ELSE @[u]]]

\* update_team, "2. Assign new members": User.id.in_(member_ids).
assign_members(db, team_id, ids) ==
    [db EXCEPT !.users =
        [u \in DOMAIN @ |-> IF u \in ids THEN UserRow(team_id) ELSE @[u]]]

update_team_tx(db, team_id, team_data) ==
    LET db1 == renamed(db, team_id, team_data.name)
    IN  IF team_data.member_ids.given
        THEN LET db2 == unassign_members(db1, team_id)
             IN  IF team_data.member_ids.ids # {}
                 THEN assign_members(db2, team_id, team_data.member_ids.ids)
                 ELSE db2
        ELSE db1

update_team(team_id, team_data) ==
    /\ IF team_id \notin DOMAIN teams
       THEN Raise("update_team", HTTP_NOT_FOUND)
       ELSE Commit(update_team_tx(Store, team_id, team_data), "update_team", HTTP_OK, NULL)
    /\ UNCHANGED <<config, txs, nextTeamId, nextEquipmentId>>

\* delete_team, steps 2 to 5.
unassign_users(db, team_id) ==
    [db EXCEPT !.users =
        [u \in DOMAIN @ |-> IF @[u].team_id = team_id THEN UserRow(NULL) ELSE @[u]]]

unassign_equipment(db, team_id) ==
    [db EXCEPT !.equipment =
        [e \in DOMAIN @ |->
            IF @[e].maintenance_team_id = team_id
            THEN [@[e] EXCEPT !.maintenance_team_id = NULL]
            ELSE @[e]]]

\* Mutant of unassign_requests: step 4 of delete_team left out.
unassign_requests_left_out(db, team_id) == db

unassign_requests(db, team_id) ==
    [db EXCEPT !.requests =
        [r \in DOMAIN @ |->
            IF @[r].assigned_team_id = team_id
            THEN [@[r] EXCEPT !.assigned_team_id = NULL]
            ELSE @[r]]]

remove_team(db, team_id) == [db EXCEPT !.teams = Drop(@, team_id)]

delete_team_tx(db, team_id) ==
    remove_team(
        unassign_requests(unassign_equipment(unassign_users(db, team_id), team_id), team_id),
        team_id)

\* Mutant of delete_team: step 1, the existence check, left out.
delete_team_unchecked(team_id) ==
    /\ Commit(delete_team_tx(Store, team_id), "delete_team", HTTP_OK, NULL)
    /\ UNCHANGED <<config, txs, nextTeamId, nextEquipmentId>>

delete_team(team_id) ==
    /\ IF team_id \notin DOMAIN teams
       THEN Raise("delete_team", HTTP_NOT_FOUND)
       ELSE Commit(delete_team_tx(Store, team_id), "delete_team", HTTP_OK, NULL)
    /\ UNCHANGED <<config, txs, nextTeamId, nextEquipmentId>>

\* ---------------------------------------------------------------- inputs
TeamIds == 1 .. capacity.teams
EquipmentIds == 1 .. capacity.equipment
RequestIds == 1 .. capacity.requests
\* One user id more than can exist, so that a member or technician id may resolve to
\* no user in every state.
UserIds == 1 .. (capacity.users + 1)

TeamNames == {"A", "B"}

OptTeamIds == {NULL, 0} \cup TeamIds
OptEquipmentIds == {NULL} \cup EquipmentIds
OptTechnicianIds == {NULL, 1}

RequestCreate ==
    [request_type : {"Corrective", "Audit"},
     equipment_id : OptEquipmentIds,
     team_id : OptTeamIds,
     technician_id : OptTechnicianIds,
     priority : {1},
     duration : {0}]

\* RequestUpdate with every field at its default, None.
NoUpdate ==
    [stage |-> NONE, duration_hours |-> NULL, technician_id |-> NULL, priority |-> NULL,
     notes |-> NONE, instructions |-> NONE, worksheet_log |-> NONE, kanban_state |-> NONE]

OptStages == {NONE, ""} \cup RequestStage

\* The patches of the stage board: a stage and a technician.
StageUpdate ==
    {[NoUpdate EXCEPT !.stage = s, !.technician_id = t] :
        s \in OptStages, t \in OptTechnicianIds}

EquipmentSchema == [maintenance_team_id : {0} \cup TeamIds, technician_id : OptTechnicianIds]

TeamCreate == [name : TeamNames]

MemberIds ==
    {[given |-> FALSE, ids |-> {}]} \cup {[given |-> TRUE, ids |-> m] : m \in SUBSET UserIds}

TeamUpdate == [name : {NONE, ""} \cup TeamNames, member_ids : MemberIds]

\* ---------------------------------------------------------------- specification
Capacity(u, t, e, r) == [users |-> u, teams |-> t, equipment |-> e, requests |-> r]

\* The handlers that run as transactions in flight in SpecTx, and a handler with no
\* transaction in flight.
TxOps == {"delete_team", "update_team", "create_request", "update_equipment"}

Idle == [pc |-> "idle", args |-> <<>>, writes |-> <<>>]

\* create_all on an empty database; no handler has run.
InitWith(cap) ==
    /\ fkEnforced \in BOOLEAN
    /\ capacity = cap
    /\ users = <<>>
    /\ teams = <<>>
    /\ equipment = <<>>
    /\ requests = <<>>
    /\ nextTeamId = 1
    /\ nextEquipmentId = 1
    /\ response = Response("none", HTTP_OK, NULL)
    /\ txs = [op \in TxOps |-> Idle]

Init == InitWith(Capacity(MaxUsers, MaxTeams, MaxEquipment, MaxRequests))

Next ==
    \/ signup
    \/ \E team \in TeamCreate : create_team(team)
    \/ \E team_id \in TeamIds, team_data \in TeamUpdate : update_team(team_id, team_data)
    \/ \E team_id \in TeamIds : delete_team(team_id)
    \/ \E equip \in EquipmentSchema : create_equipment(equip)
    \/ \E equipment_id \in EquipmentIds, equip \in EquipmentSchema :
          update_equipment(equipment_id, equip)
    \/ \E equipment_id \in EquipmentIds : delete_equipment(equipment_id)
    \/ \E equipment_id \in EquipmentIds : get_equipment_stats(equipment_id)
    \/ \E request \in RequestCreate : create_request(request)
    \/ \E request_id \in RequestIds, update_data \in StageUpdate :
          update_stage(request_id, update_data)

Spec == Init /\ [][Next]_vars

\* Team membership alone: more users and teams, no equipment and no requests.
InitTeams == InitWith(Capacity(TeamsMaxUsers, TeamsMaxTeams, 0, 0))

NextTeams ==
    \/ signup
    \/ \E team \in TeamCreate : create_team(team)
    \/ \E team_id \in TeamIds, team_data \in TeamUpdate : update_team(team_id, team_data)
    \/ \E team_id \in TeamIds : delete_team(team_id)

SpecTeams == InitTeams /\ [][NextTeams]_vars

\* The request form alone: one user, no team, no equipment; every field of the patch.
PlainRequest ==
    [request_type : {"Corrective"}, equipment_id : {NULL}, team_id : {NULL},
     technician_id : {NULL}, priority : {1}, duration : {0}]

\* The values tried for each field of the patch, None apart.
FieldValues ==
    [stage |-> {"", STAGE_SCRAP},
     duration_hours |-> {0, 1},
     technician_id |-> {0, 1},
     priority |-> {0, 2},
     notes |-> {"", "checked"},
     instructions |-> {""},
     worksheet_log |-> {""},
     kanban_state |-> {"", KANBAN_DONE}]

\* The patches that supply one more field than those of the set P.
Supplying(P) ==
    UNION {{[update_data EXCEPT ![f] = v] : v \in FieldValues[f]} :
              update_data \in P, f \in DOMAIN FieldValues}

\* The patches that supply no field, one field or two fields.
FieldUpdate == {NoUpdate} \cup Supplying({NoUpdate}) \cup Supplying(Supplying({NoUpdate}))

InitFields == InitWith(Capacity(1, 0, 0, FieldsMaxRequests))

NextFields ==
    \/ signup
    \/ \E request \in PlainRequest : create_request(request)
    \/ \E request_id \in RequestIds, update_data \in FieldUpdate :
          update_stage(request_id, update_data)

SpecFields == InitFields /\ [][NextFields]_vars

\* The open-request count alone: one team, several requests per equipment.
StatsEquipment == [maintenance_team_id : {1}, technician_id : {NULL}]

StatsRequest ==
    [request_type : {"Corrective"}, equipment_id : OptEquipmentIds, team_id : {NULL},
     technician_id : {NULL}, priority : {1}, duration : {0}]

StatsUpdate == {[NoUpdate EXCEPT !.stage = s] : s \in RequestStage}

InitStats == InitWith(Capacity(0, 1, StatsMaxEquipment, StatsMaxRequests))

NextStats ==
    \/ \E team \in TeamCreate : create_team(team)
    \/ \E equip \in StatsEquipment : create_equipment(equip)
    \/ \E equipment_id \in EquipmentIds : delete_equipment(equipment_id)
    \/ \E equipment_id \in EquipmentIds : get_equipment_stats(equipment_id)
    \/ \E request \in StatsRequest : create_request(request)
    \/ \E request_id \in RequestIds, update_data \in StatsUpdate :
          update_stage(request_id, update_data)

SpecStats == InitStats /\ [][NextStats]_vars

\* ---------------------------------------------------------------- transactions
\* One delete_team, and the handlers that write a team reference while it runs.  Each
\* is one transaction under read committed: its lookup, then its statements, which
\* read the committed rows of that moment and whose writes stay in the transaction,
\* then db.commit(), which installs the writes over whatever has been committed since.

\* The delete_team transaction has finished (committed, or failed at commit).
Done == [pc |-> "done", args |-> <<>>, writes |-> <<>>]

Finished(op) == IF op = "delete_team" THEN Done ELSE Idle

\* The lookup a handler starts with: the row it is about, or the request type.
Found(db, op, args) ==
    CASE op = "delete_team" -> args.team_id \in DOMAIN db.teams
      [] op = "update_team" -> args.team_id \in DOMAIN db.teams
      [] op = "update_equipment" -> args.equipment_id \in DOMAIN db.equipment
      [] op = "create_request" -> args.request.request_type \in RequestType

NotFoundStatus(op) == IF op = "create_request" THEN HTTP_BAD_REQUEST ELSE HTTP_NOT_FOUND

\* The rows as the statements of the handler leave them in its own session.
statements(db, op, args) ==
    CASE op = "delete_team" -> delete_team_tx(db, args.team_id)
      [] op = "update_team" -> update_team_tx(db, args.team_id, args.team_data)
      [] op = "update_equipment" -> update_equipment_tx(db, args.equipment_id, args.equip)
      [] op = "create_request" -> create_request_tx(db, args.request)

\* The row a handler loaded at its lookup and assigns to has been deleted since: the
\* UPDATE of the flush matches no row.
Stale(db, op, args) ==
    \/ /\ op = "update_team"
       /\ TruthyStr(args.team_data.name)
       /\ args.team_id \notin DOMAIN db.teams
    \/ /\ op = "update_equipment"
       /\ args.equipment_id \notin DOMAIN db.equipment

\* The columns of the row new that differ from the row old.
ColumnsSet(old, new) == [c \in {c \in DOMAIN new : new[c] # old[c]} |-> new[c]]

\* The UPDATEs that turn the table f into the table g: per row, the columns set.
Updates(f, g) ==
    [k \in {k \in DOMAIN f \cap DOMAIN g : g[k] # f[k]} |-> ColumnsSet(f[k], g[k])]

\* The writes of a transaction that read db and left new in its session.
WritesOf(db, new) ==
    [users |-> Updates(db.users, new.users),
     teams |-> Updates(db.teams, new.teams),
     equipment |-> Updates(db.equipment, new.equipment),
     requests |-> Updates(db.requests, new.requests),
     deleted_teams |-> DOMAIN db.teams \ DOMAIN new.teams,
     new_requests |-> SubSeq(new.requests, Len(db.requests) + 1, Len(new.requests))]

\* The table f after the UPDATEs w: a row that is no longer there is not written.
Updated(f, w) ==
    [k \in DOMAIN f |->
        IF k \in DOMAIN w
        THEN [c \in DOMAIN f[k] |-> IF c \in DOMAIN w[k] THEN w[k][c] ELSE f[k][c]]
        ELSE f[k]]

\* The committed rows db with the writes w installed.
Installed(db, w) ==
    [users |-> Updated(db.users, w.users),
     teams |-> [k \in DOMAIN db.teams \ w.deleted_teams |-> Updated(db.teams, w.teams)[k]],
     equipment |-> Updated(db.equipment, w.equipment),
     requests |-> Updated(db.requests, w.requests) \o w.new_requests]

\* A request arrives and the handler does its lookup.
Begin(op, args) ==
    /\ txs[op].pc = "idle"
    /\ IF Found(Store, op, args)
       THEN /\ txs' = [txs EXCEPT ![op] = [pc |-> "begun", args |-> args, writes |-> <<>>]]
            /\ UNCHANGED <<tables, response>>
       ELSE /\ Raise(op, NotFoundStatus(op))
            /\ UNCHANGED txs
    /\ UNCHANGED <<config, nextTeamId, nextEquipmentId>>

\* The handler runs its statements, up to db.commit().
Execute(op) ==
    /\ txs[op].pc = "begun"
    /\ IF Stale(Store, op, txs[op].args)
       THEN /\ Raise(op, HTTP_SERVER_ERROR)
            /\ txs' = [txs EXCEPT ![op] = Finished(op)]
       ELSE /\ txs' = [txs EXCEPT
                         ![op].pc = "executed",
                         ![op].writes =
                             WritesOf(Store, statements(Store, op, txs[op].args))]
            /\ UNCHANGED <<tables, response>>
    /\ UNCHANGED <<config, nextTeamId, nextEquipmentId>>

\* db.commit() of the handler.
CommitTx(op) ==
    /\ txs[op].pc = "executed"
    /\ Commit(Installed(Store, txs[op].writes), op, HTTP_OK, NULL)
    /\ txs' = [txs EXCEPT ![op] = Finished(op)]
    /\ UNCHANGED <<config, nextTeamId, nextEquipmentId>>

\* The delete_team transaction is in flight.
Deleting == txs["delete_team"].pc \in {"begun", "executed"}

\* No transaction has begun yet: the handlers that fill the store run one at a time.
Before == \A op \in TxOps : txs[op].pc = "idle"

TxTeamUpdate == [name : {NONE}, member_ids : MemberIds]

TxRequest ==
    [request_type : {"Corrective"}, equipment_id : {NULL}, team_id : TeamIds,
     technician_id : {NULL}, priority : {1}, duration : {0}]

InitTx == InitWith(Capacity(TxMaxUsers, TxMaxTeams, TxMaxEquipment, TxMaxRequests))

NextTx ==
    \/ Before /\ signup
    \/ Before /\ \E team \in TeamCreate : create_team(team)
    \/ Before /\ \E equip \in EquipmentSchema : create_equipment(equip)
    \/ Before /\ \E team_id \in TeamIds, team_data \in TxTeamUpdate :
                    update_team(team_id, team_data)
    \/ \E team_id \in TeamIds : Begin("delete_team", [team_id |-> team_id])
    \/ Deleting /\ \E team_id \in TeamIds, team_data \in TxTeamUpdate :
                      Begin("update_team", [team_id |-> team_id, team_data |-> team_data])
    \/ Deleting /\ \E equipment_id \in EquipmentIds, equip \in EquipmentSchema :
                      Begin("update_equipment", [equipment_id |-> equipment_id, equip |-> equip])
    \/ Deleting /\ Len(requests) < capacity.requests /\ \E request \in TxRequest :
                      Begin("create_request", [request |-> request])
    \/ \E op \in TxOps : Execute(op)
    \/ \E op \in TxOps : CommitTx(op)

SpecTx == InitTx /\ [][NextTx]_vars

\* ================================================================ claims
Ok(op) == Response(op, HTTP_OK, NULL)
NotFound(op) == Response(op, HTTP_NOT_FOUND, NULL)

\* The rows of the store that name team T.
TeamReferrers(db, T) ==
    [users |-> {u \in DOMAIN db.users : db.users[u].team_id = T},
     equipment |-> {e \in DOMAIN db.equipment : db.equipment[e].maintenance_team_id = T},
     requests |-> {r \in DOMAIN db.requests : db.requests[r].assigned_team_id = T}]

NoReferrers == [users |-> {}, equipment |-> {}, requests |-> {}]

\* C1: delete_team on an existing team T always completes, and then no user, no
\* equipment and no request names T and T is gone; delete_team on a team that is not
\* there answers 404; and a deleted team never comes back, so the second delete_team(T)
\* is such a call.
C1_DeleteTeamCascade ==
    [][\A T \in TeamIds :
         /\ (delete_team(T) /\ T \in DOMAIN teams) =>
               /\ response' = Ok("delete_team")
               /\ T \notin DOMAIN teams'
               /\ TeamReferrers(Store', T) = NoReferrers
         /\ (delete_team(T) /\ T \notin DOMAIN teams) => response' = NotFound("delete_team")
         /\ (T < nextTeamId /\ T \notin DOMAIN teams) => T \notin DOMAIN teams'
      ]_vars

\* C1 witness: a delete_team has completed: the team is gone and an equipment row,
\* which is never created without a team, has been unassigned by the cascade.
C1_Witness ==
    /\ response = Ok("delete_team")
    /\ \E T \in TeamIds : T < nextTeamId /\ T \notin DOMAIN teams
    /\ \E e \in DOMAIN equipment : equipment[e].maintenance_team_id = NULL
    /\ users # <<>>
    /\ requests # <<>>

\* A team id that was handed out and whose row is gone.
Deleted(T) == T >= 1 /\ T < nextTeamId /\ T \notin DOMAIN teams

C3_ScrapDeactivates ==
    [][\A request_id \in DOMAIN requests, update_data \in StageUpdate :
         LET E == requests[request_id].equipment_id
         IN  (/\ update_stage(request_id, update_data)
              /\ response' = Ok("update_stage")
              /\ E \in DOMAIN equipment)
             => /\ E \in DOMAIN equipment'
                /\ update_data.stage = STAGE_SCRAP => ~equipment'[E].is_active
                /\ update_data.stage \in RequestStage \ {STAGE_SCRAP} =>
                      equipment'[E].is_active = equipment[E].is_active
      ]_vars

\* C3 witness: an update_stage has committed, a request in Scrap names an existing
\* equipment, and that equipment is inactive.
C3_Witness ==
    /\ response = Ok("update_stage")
    /\ \E r \in DOMAIN requests :
          /\ requests[r].stage = STAGE_SCRAP
          /\ requests[r].equipment_id \in DOMAIN equipment
          /\ ~equipment[requests[r].equipment_id].is_active

\* C4: an equipment row that is inactive stays inactive for as long as the row exists,
\* and an id is never given to a second row.
C4_DeactivationOneWay ==
    [][/\ \A e \in DOMAIN equipment \cap DOMAIN equipment' :
             ~equipment[e].is_active => ~equipment'[e].is_active
       /\ \A e \in DOMAIN equipment' \ DOMAIN equipment : e >= nextEquipmentId
      ]_vars

\* C4 witness: an equipment is inactive although the request that names it has left
\* Scrap and an update_equipment of it has committed.
C4_Witness ==
    /\ response = Ok("update_equipment")
    /\ \E r \in DOMAIN requests :
          /\ requests[r].stage = STAGE_IN_PROGRESS
          /\ requests[r].equipment_id \in DOMAIN equipment
          /\ ~equipment[requests[r].equipment_id].is_active

\* The resolver as the specification states it: the selection when it is neither null
\* nor zero, else the team of the equipment when the equipment exists, else null.
ResolvedTeam(db, team_id, equipment_id) ==
    IF Truthy(team_id) THEN team_id
    ELSE IF equipment_id \in DOMAIN db.equipment
         THEN db.equipment[equipment_id].maintenance_team_id
         ELSE NULL

\* C5 (as claimed): every request that create_request stores has the resolver's result
\* as its assigned_team_id.
C5_StoredTeamIsResolved ==
    [][\A request \in RequestCreate :
         (create_request(request) /\ response' = Ok("create_request")) =>
            /\ Len(requests') = Len(requests) + 1
            /\ requests'[Len(requests')].assigned_team_id =
                  ResolvedTeam(Store, request.team_id, request.equipment_id)
      ]_vars

\* C6: a committed update_stage writes stage, technician_id, priority and kanban_state
\* only from a value that is neither null nor zero nor empty, writes duration_hours,
\* notes, instructions and worksheet_log from every value that is not null (0 and ""
\* included), and leaves every other column and every other row as it was.
C6_PresencePolicies ==
    [][\A request_id \in DOMAIN requests, update_data \in FieldUpdate :
         (update_stage(request_id, update_data) /\ response' = Ok("update_stage")) =>
            LET old == requests[request_id]
                new == requests'[request_id]
            IN  /\ new.stage =
                      IF update_data.stage \in {NONE, ""} THEN old.stage
                      ELSE update_data.stage
                /\ new.technician_id =
                      IF update_data.technician_id \in {NULL, 0} THEN old.technician_id
                      ELSE update_data.technician_id
                /\ new.priority =
                      IF update_data.priority \in {NULL, 0} THEN old.priority
                      ELSE update_data.priority
                /\ new.kanban_state =
                      IF update_data.kanban_state \in {NONE, ""} THEN old.kanban_state
                      ELSE update_data.kanban_state
                /\ new.duration_hours =
                      IF update_data.duration_hours = NULL THEN old.duration_hours
                      ELSE update_data.duration_hours
                /\ new.notes =
                      IF update_data.notes = NONE THEN old.notes ELSE update_data.notes
                /\ new.instructions =
                      IF update_data.instructions = NONE THEN old.instructions
                      ELSE update_data.instructions
                /\ new.worksheet_log =
                      IF update_data.worksheet_log = NONE THEN old.worksheet_log
                      ELSE update_data.worksheet_log
                /\ new.request_type = old.request_type
                /\ new.equipment_id = old.equipment_id
                /\ new.assigned_team_id = old.assigned_team_id
                /\ \A r \in DOMAIN requests \ {request_id} : requests'[r] = requests[r]
      ]_vars

\* C6 witness: update_stage has committed on a request that holds a written priority,
\* technician, kanban state and stage, a duration_hours of 0 and the empty string as its
\* notes and worksheet log.
C6_Witness ==
    /\ response = Ok("update_stage")
    /\ \E r \in DOMAIN requests :
          /\ requests[r].duration_hours = 0
          /\ requests[r].notes = ""
          /\ requests[r].worksheet_log = ""
          /\ requests[r].priority = 2
          /\ requests[r].technician_id = 1
          /\ requests[r].kanban_state = KANBAN_DONE
          /\ requests[r].stage = STAGE_SCRAP

\* The users that are members of team T.
Members(us, T) == {u \in DOMAIN us : us[u].team_id = T}

\* C7: a committed update_team of team T with a member list leaves as members of T
\* exactly the existing users named in the list, and unassigns every former member that
\* is not named; without a member list no user changes; and unless it renames the team,
\* update_team of an existing team commits, whatever ids the list holds.
C7_MembersReplaced ==
    [][\A T \in DOMAIN teams, team_data \in TeamUpdate :
         update_team(T, team_data) =>
            /\ ~TruthyStr(team_data.name) => response' = Ok("update_team")
            /\ response' = Ok("update_team") =>
                  IF team_data.member_ids.given
                  THEN /\ Members(users', T) = team_data.member_ids.ids \cap DOMAIN users
                       /\ \A u \in Members(users, T) \ team_data.member_ids.ids :
                             users'[u].team_id = NULL
                       /\ \A u \in DOMAIN users \ (Members(users, T) \cup Members(users', T)) :
                             users'[u] = users[u]
                  ELSE users' = users
      ]_vars

\* C7 witness: after update_team, user 1 is in no team and users 2 and 3 are the
\* members of one team, while another team exists.
C7_Witness ==
    /\ response = Ok("update_team")
    /\ Len(users) >= 3
    /\ \E T \in DOMAIN teams :
          /\ users[1].team_id = NULL
          /\ Members(users, T) = {2, 3}
          /\ DOMAIN teams # {T}

\* The count the specification states: the requests of the equipment in New or
\* In Progress.
OpenCount(id) ==
    Cardinality({r \in DOMAIN requests :
                    /\ requests[r].equipment_id = id
                    /\ requests[r].stage \in {STAGE_NEW, STAGE_IN_PROGRESS}})

\* C8: get_equipment_stats answers the number of requests of the equipment that are in
\* New or In Progress and writes no table; the answer of the last read stays the count
\* of some equipment id for as long as nothing is written.
C8_OpenRequestCount ==
    [][/\ \A id \in EquipmentIds :
             get_equipment_stats(id) =>
                /\ response' = Response("get_equipment_stats", HTTP_OK, OpenCount(id))
                /\ UNCHANGED tables
       /\ (response.op = "get_equipment_stats" /\ UNCHANGED tables) =>
             \E id \in EquipmentIds : response.body = OpenCount(id)'
      ]_vars

\* C8 witness: a read answered 1 while an existing equipment has one open request and
\* one in Repaired or Scrap.
C8_Witness ==
    /\ response = Response("get_equipment_stats", HTTP_OK, 1)
    /\ \E id \in DOMAIN equipment :
          /\ OpenCount(id) = 1
          /\ \E r \in DOMAIN requests :
                /\ requests[r].equipment_id = id
                /\ requests[r].stage \in {STAGE_REPAIRED, STAGE_SCRAP}

C10_NotFoundChangesNothing ==
    [][/\ \A request_id \in RequestIds \ DOMAIN requests, update_data \in StageUpdate :
             update_stage(request_id, update_data) =>
                response' = NotFound("update_stage") /\ UNCHANGED tables
       /\ \A team_id \in TeamIds \ DOMAIN teams, team_data \in TeamUpdate :
             update_team(team_id, team_data) =>
                response' = NotFound("update_team") /\ UNCHANGED tables
       /\ \A team_id \in TeamIds \ DOMAIN teams :
             delete_team(team_id) =>
                response' = NotFound("delete_team") /\ UNCHANGED tables
      ]_vars

\* C10 witness: delete_team has answered 404 on a store that holds a user, an equipment
\* and a request.
C10_Witness ==
    /\ response = NotFound("delete_team")
    /\ users # <<>>
    /\ DOMAIN equipment # {}
    /\ requests # <<>>

\* A step of the delete_team transaction.
DeleteTeamStep == txs'["delete_team"] # txs["delete_team"]

\* A step of a delete_team transaction that writes and leaves the row of its team.
HalfDeleted == DeleteTeamStep /\ tables' # tables /\ DOMAIN teams \subseteq DOMAIN teams'

\* A user, an equipment or a request names a team whose row has been removed.
NamesRemovedTeam ==
    \E T \in TeamIds :
        /\ T < nextTeamId
        /\ T \notin DOMAIN teams
        /\ TeamReferrers(Store, T) # NoReferrers

\* The first half of C11 alone: the unassignments of a delete_team are never committed
\* without the removal of the row.
DeleteTeamCommitsWhole == [][~HalfDeleted]_vars

====
